---- MODULE Spec2Model ----
(***************************************************************************)
(* Currency conversion and return decomposition of the financial           *)
(* dashboard (src/script.js).  The analytics functions read the globals    *)
(* currentData, historicalRates and currencyRates; every action below      *)
(* is one call of one of them, with its arguments and its result recorded  *)
(* in `call`.                                                              *)
(*                                                                         *)
(* Numbers are JavaScript numbers without rounding: a number is a pair     *)
(* <<n, d>> in lowest terms with d > 0; <<0,0>> is NaN, <<1,0>> Infinity   *)
(* and <<-1,0>> -Infinity.  A Date is its time value, an integer count of  *)
(* ticks; TicksPerDay ticks make one local calendar day.                   *)
(*                                                                         *)
(* SpecLoad is the loading of the data: the invocations of                 *)
(* loadFinancialData and loadCurrencyRates, one action per stretch of code *)
(* between two awaits, interleaved with the user's events.                 *)
(***************************************************************************)
EXTENDS Integers, Sequences, FiniteSets, Bags, TLC

VARIABLES currentData, historicalRates, currencyRates, call,
          controls, loads, refresh, cache, rateLimiter, now, loading, origin,
          dashboardAccess, location, stage, initialized, preload, overviews,
          marketOverviewInterval, liveUpdateInterval, timers, nextTimer

\* the state of the page around the loaders: the item of sessionStorage, the
\* document that is loaded and how far its script has come, the calls of
\* loadMarketOverview that await their answers, the two interval handles and
\* the intervals that the browser keeps running
pageVars ==
    <<dashboardAccess, location, stage, initialized, preload, overviews,
      marketOverviewInterval, liveUpdateInterval, timers, nextTimer>>

vars ==
    <<currentData, historicalRates, currencyRates, call,
      controls, loads, refresh, cache, rateLimiter, now, loading, origin,
      pageVars>>

\* the state of the loaders and of the page around them; origin is a history
\* variable that records where the rates in currencyRates, in the cache and in
\* historicalRates came from
loaderVars ==
    <<controls, loads, refresh, cache, rateLimiter, now, loading, origin,
      pageVars>>

-----------------------------------------------------------------------------
(* Bounds of the model *)

MaxPoints == 3
MaxRates == 2
MaxTime == 4
TicksPerDay == 2
MaxLong == 9
\* the significant bits a rounded number keeps (53 in the program's doubles)
Precision == 8
\* the timeframes of the timeframe select, in days
MaxFrame == 2
\* the readings of Date.now()
MaxNow == 1
\* cache.currencyRates.duration, rateLimiter.resetInterval and
\* rateLimiter.maxRequests, scaled down to the clock of the model
CacheDuration == 1
ResetInterval == 0
MaxRequests == 2
\* the bars of an answer of the price feed
MaxBars == 2
MaxTimers == 3
MaxOverviews == 2

Times == 0..MaxTime

-----------------------------------------------------------------------------
(* JavaScript numbers *)

NaN == <<0, 0>>
Infinity == <<1, 0>>
Null == <<>>

Abs(x) == IF x < 0 THEN -x ELSE x

Sign(x) == IF x > 0 THEN 1 ELSE IF x < 0 THEN -1 ELSE 0

RECURSIVE Gcd(_, _)
Gcd(a, b) == IF b = 0 THEN a ELSE Gcd(b, a % b)

Norm(n, d) ==
    IF d = 0 THEN <<Sign(n), 0>>
    ELSE LET g == Gcd(Abs(n), Abs(d))
         IN  <<(Sign(d) * n) \div g, Abs(d) \div g>>

Num(i) == <<i, 1>>

\* the product, with the common factors taken out before multiplying
Mul(x, y) ==
    IF x[2] = 0 \/ y[2] = 0 THEN <<Sign(x[1]) * Sign(y[1]), 0>>
    ELSE IF x[2] = 1 /\ y[2] = 1 THEN <<x[1] * y[1], 1>>
    ELSE LET g1 == Gcd(Abs(x[1]), y[2])
             g2 == Gcd(Abs(y[1]), x[2])
         IN  <<(x[1] \div g1) * (y[1] \div g2), (x[2] \div g2) * (y[2] \div g1)>>

Div(x, y) ==
    IF y[2] = 0 /\ x[2] # 0 THEN (IF y[1] = 0 THEN NaN ELSE Num(0))
    ELSE IF y[2] # 0 /\ y[1] = 0 THEN <<Sign(x[1]), 0>>
    ELSE IF x[2] = 0 THEN <<x[1] * Sign(y[1]), 0>>
    ELSE Mul(x, <<Sign(y[1]) * y[2], Abs(y[1])>>)

Sub(x, y) ==
    IF x[2] = 0 \/ y[2] = 0
    THEN (IF x = NaN \/ y = NaN \/ (x[2] = 0 /\ x = y) THEN NaN
          ELSE IF x[2] = 0 THEN x ELSE <<-y[1], 0>>)
    ELSE IF x[2] = 1 /\ y[2] = 1 THEN <<x[1] - y[1], 1>>
    ELSE LET l == (x[2] \div Gcd(x[2], y[2])) * y[2]
         IN  Norm(x[1] * (l \div x[2]) - y[1] * (l \div y[2]), l)

Add(x, y) == Sub(x, IF y = NaN THEN NaN ELSE <<-y[1], y[2]>>)

RECURSIVE Pow2(_)
Pow2(k) == IF k = 0 THEN 1 ELSE 2 * Pow2(k - 1)

\* <<n, d, e>> with n / d in [2^(Precision-1), 2^Precision) and the value
\* n / d * 2^e kept
RECURSIVE Significand(_, _, _)
Significand(n, d, e) ==
    IF n < Pow2(Precision - 1) * d THEN Significand(2 * n, d, e - 1)
    ELSE IF n >= Pow2(Precision) * d THEN Significand(n, 2 * d, e + 1)
    ELSE <<n, d, e>>

\* n / d rounded to the nearest integer, ties to even
RoundHalfEven(n, d) ==
    LET q == n \div d
        r == n % d
    IN  IF 2 * r < d THEN q
        ELSE IF 2 * r > d THEN q + 1
        ELSE IF q % 2 = 0 THEN q ELSE q + 1

\* the result of one floating-point operation: the exact value rounded to
\* Precision significant bits, ties to even
Fl(x) ==
    IF x[2] = 0 \/ x[1] = 0 THEN x
    ELSE LET f == Significand(Abs(x[1]), x[2], 0)
             m == Sign(x[1]) * RoundHalfEven(f[1], f[2])
         IN  IF f[3] >= 0 THEN Num(m * Pow2(f[3])) ELSE Norm(m, Pow2(-f[3]))

\* JavaScript truthiness of a number or null
Truthy(v) == v # Null /\ v # NaN /\ v # Num(0)

-----------------------------------------------------------------------------
(* Dates *)

\* Date.prototype.toDateString: the local calendar day of a time value
\* the trading days per year of the annualisation
TradingDays == 252

toDateString(t) == t \div TicksPerDay

-----------------------------------------------------------------------------
(* Inputs: the feeds' price series, rate tables and current-rate mappings *)

Currencies == {"USD", "NOK", "EUR"}

\* closes of a feed, by position
ClosePaths ==
    { <<100, 110, 105, 103, 108>>, <<0, 100, 110, 105, 100>> }

\* rates of a feed, by position
RatePath == <<10, 12, 11, 13, 9>>
LongCloses == <<100, 200, 100, 50>>

\* a point as processFinancialData builds it: close is the adjusted close
Point(t, c) ==
    [date |-> t, open |-> Num(c - 1), high |-> Num(c + 2), low |-> Num(c - 3),
     close |-> Num(c), volume |-> Num(1000 + c), adjClose |-> Num(c)]

\* the strictly ascending sequences of at most n times
RECURSIVE AscendingFrom(_, _)
AscendingFrom(lo, n) ==
    IF n = 0 THEN { <<>> }
    ELSE { <<>> } \cup
         UNION { { <<t>> \o s : s \in AscendingFrom(t + 1, n - 1) } :
                 t \in { u \in Times : u >= lo } }

\* one point per tick, long enough for the one-week period of the performance
\* table to start after the first point
LongSeries ==
    { [i \in 1..n |-> Point(i - 1, LongCloses[((i - 1) % Len(LongCloses)) + 1])] :
        n \in (MaxLong - 1)..MaxLong }

PriceSeries ==
    { [i \in 1..Len(ts) |-> Point(ts[i], p[i])] :
        ts \in AscendingFrom(0, MaxPoints), p \in ClosePaths } \cup LongSeries

RateTables ==
    { [i \in 1..Len(ts) |-> [date |-> ts[i], rate |-> Num(RatePath[i])]] :
        ts \in AscendingFrom(0, MaxRates) }

\* currencyRates: not loaded yet, Norges Bank shape, Frankfurter shape
RateMaps ==
    { <<>>,
      [c \in {"USD", "NOK"} |-> IF c = "USD" THEN Num(1) ELSE Num(10)],
      [c \in Currencies |->
          IF c = "USD" THEN Num(1) ELSE IF c = "NOK" THEN Num(11) ELSE <<1, 2>>] }

\* currencyRates[c]; a missing property is undefined, NaN in arithmetic
RateOf(c) == IF c \in DOMAIN currencyRates THEN currencyRates[c] ELSE NaN

-----------------------------------------------------------------------------
(* The analytics functions *)

\* the scan of findClosestRate's for loop from entry i on
RECURSIVE ClosestScan(_, _, _, _)
ClosestScan(targetDate, i, closestRate, minDiff) ==
    IF i > Len(historicalRates) THEN closestRate
    ELSE LET rate == historicalRates[i]
             diff == Abs(targetDate - rate.date)
         IN  IF diff < minDiff
             THEN ClosestScan(targetDate, i + 1, rate, diff)
             ELSE ClosestScan(targetDate, i + 1, closestRate, minDiff)

\* Array.prototype.find over historicalRates by calendar day: the index of the
\* first match, 0 when there is none
FindByDay(date) ==
    LET hits == { i \in 1..Len(historicalRates) :
                    toDateString(historicalRates[i].date) = toDateString(date) }
    IN  IF hits = {} THEN 0
        ELSE CHOOSE i \in hits : \A j \in hits : i <= j

\* findClosestRate without the exact calendar-day match
findClosestRate_NoExactMatch(targetDate) ==
    IF Len(historicalRates) = 0
    THEN Div(RateOf("NOK"), RateOf("USD"))
    ELSE ClosestScan(targetDate, 1, historicalRates[1],
                     Abs(targetDate - historicalRates[1].date)).rate

\* findClosestRate with the fallback quotient upside down
findClosestRate_InverseFallback(targetDate) ==
    IF Len(historicalRates) = 0
    THEN Div(RateOf("USD"), RateOf("NOK"))
    ELSE LET exactMatch == FindByDay(targetDate)
         IN  IF exactMatch # 0
             THEN historicalRates[exactMatch].rate
             ELSE ClosestScan(targetDate, 1, historicalRates[1],
                              Abs(targetDate - historicalRates[1].date)).rate

findClosestRate(targetDate) ==
    IF Len(historicalRates) = 0
    THEN Div(RateOf("NOK"), RateOf("USD"))
    ELSE LET exactMatch == FindByDay(targetDate)
         IN  IF exactMatch # 0
             THEN historicalRates[exactMatch].rate
             ELSE ClosestScan(targetDate, 1, historicalRates[1],
                              Abs(targetDate - historicalRates[1].date)).rate

\* Scaled that multiplies the volume as well
Scaled_Volume(item, rate) ==
    [item EXCEPT !.open = Mul(@, rate), !.high = Mul(@, rate),
                 !.low = Mul(@, rate), !.close = Mul(@, rate),
                 !.adjClose = Mul(@, rate), !.volume = Mul(@, rate)]

\* { ...item, open: item.open * rate, ... }
Scaled(item, rate) ==
    [item EXCEPT !.open = Mul(@, rate), !.high = Mul(@, rate),
                 !.low = Mul(@, rate), !.close = Mul(@, rate),
                 !.adjClose = Mul(@, rate)]

\* convertDataToCurrency without the same-currency early return
convertDataToCurrency_NoIdentity(data, targetCurrency, sourceCurrency, startRateOverride) ==
    IF Len(historicalRates) > 0 /\ targetCurrency = "NOK" /\ sourceCurrency = "USD"
    THEN [index \in 1..Len(data) |->
            LET rate == IF index = 1 /\ Truthy(startRateOverride)
                        THEN startRateOverride
                        ELSE findClosestRate(data[index].date)
            IN  Scaled(data[index], rate)]
    ELSE LET conversionRate == Div(RateOf(targetCurrency), RateOf(sourceCurrency))
         IN  [index \in 1..Len(data) |-> Scaled(data[index], conversionRate)]

\* convertDataToCurrency that ignores startRateOverride
convertDataToCurrency_NoOverride(data, targetCurrency, sourceCurrency, startRateOverride) ==
    IF targetCurrency = sourceCurrency THEN data
    ELSE IF Len(historicalRates) > 0 /\ targetCurrency = "NOK"
            /\ sourceCurrency = "USD"
    THEN [index \in 1..Len(data) |->
            Scaled(data[index], findClosestRate(data[index].date))]
    ELSE LET conversionRate == Div(RateOf(targetCurrency), RateOf(sourceCurrency))
         IN  [index \in 1..Len(data) |-> Scaled(data[index], conversionRate)]

\* convertDataToCurrency with the static quotient upside down
convertDataToCurrency_InverseRate(data, targetCurrency, sourceCurrency, startRateOverride) ==
    IF targetCurrency = sourceCurrency THEN data
    ELSE IF Len(historicalRates) > 0 /\ targetCurrency = "NOK"
            /\ sourceCurrency = "USD"
    THEN [index \in 1..Len(data) |->
            LET rate == IF index = 1 /\ Truthy(startRateOverride)
                        THEN startRateOverride
                        ELSE findClosestRate(data[index].date)
            IN  Scaled(data[index], rate)]
    ELSE LET conversionRate == Div(RateOf(sourceCurrency), RateOf(targetCurrency))
         IN  [index \in 1..Len(data) |-> Scaled(data[index], conversionRate)]

convertDataToCurrency(data, targetCurrency, sourceCurrency, startRateOverride) ==
    IF targetCurrency = sourceCurrency THEN data
    ELSE IF Len(historicalRates) > 0 /\ targetCurrency = "NOK"
            /\ sourceCurrency = "USD"
    THEN [index \in 1..Len(data) |->
            LET rate == IF index = 1 /\ Truthy(startRateOverride)
                        THEN startRateOverride
                        ELSE findClosestRate(data[index].date)
            IN  Scaled(data[index], rate)]
    ELSE LET conversionRate == Div(RateOf(targetCurrency), RateOf(sourceCurrency))
         IN  [index \in 1..Len(data) |-> Scaled(data[index], conversionRate)]

\* the static path with the rate of the target alone
convertStaticRounded_TargetOnly(data, targetCurrency, sourceCurrency) ==
    IF targetCurrency = sourceCurrency THEN data
    ELSE LET conversionRate == RateOf(targetCurrency)
         IN  [index \in 1..Len(data) |->
                [data[index] EXCEPT !.open = Fl(Mul(@, conversionRate)),
                                    !.high = Fl(Mul(@, conversionRate)),
                                    !.low = Fl(Mul(@, conversionRate)),
                                    !.close = Fl(Mul(@, conversionRate)),
                                    !.adjClose = Fl(Mul(@, conversionRate))]]

\* the static path of convertDataToCurrency with the result of the division
\* and of every multiplication rounded as a floating-point operation rounds it
convertStaticRounded(data, targetCurrency, sourceCurrency) ==
    IF targetCurrency = sourceCurrency THEN data
    ELSE LET conversionRate == Fl(Div(RateOf(targetCurrency), RateOf(sourceCurrency)))
         IN  [index \in 1..Len(data) |->
                [data[index] EXCEPT !.open = Fl(Mul(@, conversionRate)),
                                    !.high = Fl(Mul(@, conversionRate)),
                                    !.low = Fl(Mul(@, conversionRate)),
                                    !.close = Fl(Mul(@, conversionRate)),
                                    !.adjClose = Fl(Mul(@, conversionRate))]]

\* calculateCurrencyImpactOverTime with the historical rate of each day
calculateCurrencyImpactOverTime_Historical(data, targetCurrency, sourceCurrency) ==
    IF targetCurrency = sourceCurrency
    THEN [index \in 1..Len(data) |-> [date |-> data[index].date, impact |-> Num(0)]]
    ELSE [index \in 1..Len(data) |->
            IF index = 1
            THEN [date |-> data[index].date, impact |-> Num(0)]
            ELSE LET item == data[index]
                     prevItem == data[index - 1]
                     currentRate == findClosestRate(item.date)
                 IN  [date |-> item.date,
                      impact |-> Sub(Sub(Mul(item.close, currentRate),
                                         Mul(prevItem.close, currentRate)),
                                     Sub(item.close, prevItem.close))]]

\* data.map((item, index) => ({ date, impact })) with the current static rate
calculateCurrencyImpactOverTime(data, targetCurrency, sourceCurrency) ==
    IF targetCurrency = sourceCurrency
    THEN [index \in 1..Len(data) |-> [date |-> data[index].date, impact |-> Num(0)]]
    ELSE LET currentRate == Div(RateOf(targetCurrency), RateOf(sourceCurrency))
         IN  [index \in 1..Len(data) |->
                IF index = 1
                THEN [date |-> data[index].date, impact |-> Num(0)]
                ELSE LET item == data[index]
                         prevItem == data[index - 1]
                         currentValueInTarget == Mul(item.close, currentRate)
                         prevValueInTarget == Mul(prevItem.close, currentRate)
                         currencyImpact ==
                             Sub(Sub(currentValueInTarget, prevValueInTarget),
                                 Sub(item.close, prevItem.close))
                     IN  [date |-> item.date, impact |-> currencyImpact]]

\* calculateIndexWithoutCurrencyChanges with each day's own rate
calculateIndexWithoutCurrencyChanges_PerDay(data, targetCurrency, sourceCurrency) ==
    IF Len(historicalRates) = 0 THEN [threw |-> FALSE, out |-> <<>>]
    ELSE IF Len(data) = 0 THEN [threw |-> TRUE, out |-> <<>>]
    ELSE IF FindByDay(data[1].date) = 0 THEN [threw |-> FALSE, out |-> <<>>]
    ELSE [threw |-> FALSE,
          out |-> [index \in 1..Len(data) |->
                     [date |-> data[index].date,
                      value |-> Mul(data[index].close,
                                    findClosestRate(data[index].date))]]]

\* calculateIndexWithoutCurrencyChanges with the nearest entry as start rate
calculateIndexWithoutCurrencyChanges_Nearest(data, targetCurrency, sourceCurrency) ==
    IF Len(historicalRates) = 0 THEN [threw |-> FALSE, out |-> <<>>]
    ELSE IF Len(data) = 0 THEN [threw |-> TRUE, out |-> <<>>]
    ELSE [threw |-> FALSE,
          out |-> [index \in 1..Len(data) |->
                     [date |-> data[index].date,
                      value |-> Mul(data[index].close,
                                    findClosestRate(data[1].date))]]]

\* the result is [threw, out]: data[0].date throws a TypeError on an empty
\* series once the table is not empty
calculateIndexWithoutCurrencyChanges(data, targetCurrency, sourceCurrency) ==
    IF Len(historicalRates) = 0 THEN [threw |-> FALSE, out |-> <<>>]
    ELSE IF Len(data) = 0 THEN [threw |-> TRUE, out |-> <<>>]
    ELSE LET startDate == data[1].date
             startRateData == FindByDay(startDate)
         IN  IF startRateData = 0 THEN [threw |-> FALSE, out |-> <<>>]
             ELSE LET startRate == historicalRates[startRateData].rate
                  IN  [threw |-> FALSE,
                       out |-> [index \in 1..Len(data) |->
                                  [date |-> data[index].date,
                                   value |-> Mul(data[index].close, startRate)]]]

\* indexConfig: every index is quoted in USD
IndexCurrency == "USD"

\* the options of the currency select
DisplayCurrencies == {"USD", "NOK"}

\* reduce((sum, x) => sum + x, 0)
RECURSIVE Sum(_)
Sum(xs) ==
    IF Len(xs) = 0 THEN Num(0)
    ELSE Add(Sum(SubSeq(xs, 1, Len(xs) - 1)), xs[Len(xs)])

\* Math.sqrt(q), kept as the root of its exact argument
Sqrt(q) == [sqrtOf |-> IF q[2] # 0 /\ q[1] < 0 THEN NaN ELSE q]

\* the product of two roots, and of a root and a non-negative number
RootMul(a, b) == [sqrtOf |-> Mul(a.sqrtOf, b.sqrtOf)]
RootTimes(a, k) == [sqrtOf |-> Mul(a.sqrtOf, Mul(k, k))]

\* calculateCurrencyImpact that divides by the unconverted starting close
calculateCurrencyImpact_UnconvertedStart(data, targetCurrency, sourceCurrency) ==
    IF targetCurrency = sourceCurrency THEN [threw |-> FALSE, value |-> Num(0)]
    ELSE IF Len(data) = 0 THEN [threw |-> TRUE, value |-> NaN]
    ELSE LET currencyImpactData ==
                 calculateCurrencyImpactOverTime(data, targetCurrency, sourceCurrency)
             totalCurrencyImpact ==
                 Sum([i \in 1..Len(currencyImpactData) |-> currencyImpactData[i].impact])
         IN  [threw |-> FALSE,
              value |-> Mul(Div(totalCurrencyImpact, data[1].close), Num(100))]

\* the result is [threw, value]: data[0].close throws a TypeError on an empty
\* series once the currencies differ
calculateCurrencyImpact(data, targetCurrency, sourceCurrency) ==
    IF targetCurrency = sourceCurrency THEN [threw |-> FALSE, value |-> Num(0)]
    ELSE IF Len(data) = 0 THEN [threw |-> TRUE, value |-> NaN]
    ELSE LET currencyImpactData ==
                 calculateCurrencyImpactOverTime(data, targetCurrency, sourceCurrency)
             totalCurrencyImpact ==
                 Sum([i \in 1..Len(currencyImpactData) |-> currencyImpactData[i].impact])
             startValueInCurrency ==
                 Mul(data[1].close, Div(RateOf(targetCurrency), RateOf(sourceCurrency)))
             currencyImpactPercent ==
                 Mul(Div(totalCurrencyImpact, startValueInCurrency), Num(100))
         IN  [threw |-> FALSE, value |-> currencyImpactPercent]

\* the day-over-day returns of calculateVolatility's for loop
DailyReturns(data) ==
    [i \in 1..(IF Len(data) = 0 THEN 0 ELSE Len(data) - 1) |->
        Div(Sub(data[i + 1].close, data[i].close), data[i].close)]

\* calculateVolatility with the sample divisor n - 1
calculateVolatility_Sample(data) ==
    LET returns == DailyReturns(data)
        mean == Div(Sum(returns), Num(Len(returns)))
        variance ==
            Div(Sum([i \in 1..Len(returns) |->
                        Mul(Sub(returns[i], mean), Sub(returns[i], mean))]),
                Num(Len(returns) - 1))
        stdDev == Sqrt(variance)
    IN  RootTimes(RootMul(stdDev, Sqrt(Num(TradingDays))), Num(100))

calculateVolatility(data) ==
    LET returns == DailyReturns(data)
        mean == Div(Sum(returns), Num(Len(returns)))
        variance ==
            Div(Sum([i \in 1..Len(returns) |->
                        Mul(Sub(returns[i], mean), Sub(returns[i], mean))]),
                Num(Len(returns)))
        stdDev == Sqrt(variance)
    IN  RootTimes(RootMul(stdDev, Sqrt(Num(TradingDays))), Num(100))

\* the days of the periods of the performance table
periods == <<7, 30, 90, 180, 365>>

\* period.days -> [startIndex, endIndex], 0-based as in the code
PeriodRange(days) ==
    LET endIndex == Len(currentData) - 1
    IN  [startIndex |-> IF endIndex - days > 0 THEN endIndex - days ELSE 0,
         endIndex |-> endIndex]

\* the row updatePerformanceTable appends for a period
PerformanceRow(convertedData, days, selectedCurrency) ==
    LET startIndex == PeriodRange(days).startIndex
        endIndex == PeriodRange(days).endIndex
        startPrice == convertedData[startIndex + 1].close
        endPrice == convertedData[endIndex + 1].close
        totalReturn == Mul(Div(Sub(endPrice, startPrice), startPrice), Num(100))
        currencyImpact ==
            calculateCurrencyImpact(SubSeq(currentData, startIndex + 1, endIndex + 1),
                                    selectedCurrency, IndexCurrency).value
        localReturn == Sub(totalReturn, currencyImpact)
    IN  [days |-> days, totalReturn |-> totalReturn,
         currencyImpact |-> currencyImpact, localReturn |-> localReturn]

\* the rows of the table body, in the order of the periods; the numbers are the
\* ones the cells format
updatePerformanceTable(selectedCurrency) ==
    IF Len(currentData) = 0 THEN <<>>
    ELSE LET convertedData ==
                 convertDataToCurrency(currentData, selectedCurrency, IndexCurrency, Null)
             shown == SelectSeq(periods,
                        LAMBDA d : PeriodRange(d).startIndex < PeriodRange(d).endIndex)
         IN  [k \in 1..Len(shown) |->
                PerformanceRow(convertedData, shown[k], selectedCurrency)]

\* the numbers updateStatistics writes into the statistics boxes; updated is
\* FALSE when it returns before writing anything
updateStatistics(selectedCurrency) ==
    IF Len(currentData) = 0 THEN [updated |-> FALSE]
    ELSE LET data == currentData
             nokPerUsd == Div(RateOf("NOK"), RateOf("USD"))
             currentPriceUSD == data[Len(data)].close
             currentPriceNOK == Mul(currentPriceUSD, nokPerUsd)
             previousPriceUSD ==
                 IF Len(data) >= 2 /\ Truthy(data[Len(data) - 1].close)
                 THEN data[Len(data) - 1].close
                 ELSE currentPriceUSD
             previousPriceNOK == Mul(previousPriceUSD, nokPerUsd)
             startPriceUSD == data[1].close
             startPriceNOK == Mul(startPriceUSD, nokPerUsd)
             priceChangeUSD == Sub(currentPriceUSD, previousPriceUSD)
             priceChangeNOK == Sub(currentPriceNOK, previousPriceNOK)
             totalReturnUSD == Sub(currentPriceUSD, startPriceUSD)
             totalReturnNOK == Sub(currentPriceNOK, startPriceNOK)
             startRateData == FindByDay(data[1].date)
             endRateData == FindByDay(data[Len(data)].date)
             real == /\ Len(historicalRates) > 0 /\ selectedCurrency = "NOK"
                     /\ startRateData # 0 /\ endRateData # 0
             startRate == historicalRates[startRateData].rate
             endRate == historicalRates[endRateData].rate
             currencyImpactNOK ==
                 IF real
                 THEN Sub(Mul(currentPriceUSD, endRate), Mul(currentPriceUSD, startRate))
                 ELSE Num(0)
         IN  [updated |-> TRUE,
              currentPriceUSD |-> currentPriceUSD,
              currentPriceNOK |-> currentPriceNOK,
              priceChangeUSD |-> priceChangeUSD,
              priceChangeNOK |-> priceChangeNOK,
              priceChangePercentUSD |->
                  Mul(Div(priceChangeUSD, previousPriceUSD), Num(100)),
              priceChangePercentNOK |->
                  Mul(Div(priceChangeNOK, previousPriceNOK), Num(100)),
              totalReturnUSD |-> totalReturnUSD,
              totalReturnNOK |-> totalReturnNOK,
              totalReturnPercentUSD |->
                  Mul(Div(totalReturnUSD, startPriceUSD), Num(100)),
              totalReturnPercentNOK |->
                  Mul(Div(totalReturnNOK, startPriceNOK), Num(100)),
              currencyImpactNOK |-> currencyImpactNOK,
              currencyImpactPercentNOK |->
                  IF real
                  THEN Mul(Div(currencyImpactNOK, Mul(startPriceUSD, startRate)),
                           Num(100))
                  ELSE Num(0),
              volatility |-> calculateVolatility(data)]

-----------------------------------------------------------------------------
(* The feeds and the loaders' data *)

\* the invocations of loadFinancialData that are followed together; loads is
\* the bag of the invocations in flight or waiting for their retry
Loads == {1, 2}

Timeframes == 1..MaxFrame

\* the closes of the price feed, by day
FeedCloses == <<100, 110, 105, 103, 108>>

\* processFinancialData of the feed's answer for a timeframe: the days
\* MaxFrame - tf .. MaxFrame, each point one tick after midnight
PriceFeed(tf) ==
    [i \in 1..(tf + 1) |->
        Point((MaxFrame - tf + i - 1) * TicksPerDay + 1, FeedCloses[MaxFrame - tf + i])]

\* the current USD/NOK rates Norges Bank may publish
FeedRates == {<<21, 2>>}

\* currencyRates = { USD: 1, NOK: currentRate }
NorgesRates(currentRate) ==
    [c \in {"USD", "NOK"} |-> IF c = "USD" THEN Num(1) ELSE currentRate]

\* data.rates of Frankfurter with USD set to 1
FrankfurterRates ==
    [c \in Currencies |->
        IF c = "USD" THEN Num(1) ELSE IF c = "NOK" THEN Num(11) ELSE <<1, 2>>]

\* the fallback rates with a key that marks them
FallbackRates_Marked ==
    [c \in {"USD", "NOK", "fallback"} |->
        IF c = "USD" THEN Num(1) ELSE IF c = "NOK" THEN <<21, 2>> ELSE Num(1)]

\* { USD: 1, NOK: 10.5 }
FallbackRates ==
    [c \in {"USD", "NOK"} |-> IF c = "USD" THEN Num(1) ELSE <<21, 2>>]

\* what a fetch of loadCurrencyRates may end in
RateOutcomes ==
    { [kind |-> "real", rates |-> NorgesRates(r)] : r \in FeedRates }
        \cup { [kind |-> "real", rates |-> FrankfurterRates],
               [kind |-> "fallback", rates |-> FallbackRates] }

\* the daily rates of Norges Bank or Frankfurter for the days of a range, at
\* midnight
RealTable(startDate, endDate) ==
    LET first == toDateString(startDate)
        last == toDateString(endDate)
    IN  [i \in 1..(last - first + 1) |->
            [date |-> (first + i - 1) * TicksPerDay, rate |-> Num(RatePath[first + i])]]

\* the variation of a synthetic rate, Math.sin(i * 0.01) * 0.8 +
\* Math.random() * 0.4; the entries of one table take the same one
Variations == {Num(0), <<3, 10>>}

\* the synthetic series: one entry per day from startDate on, at startDate's
\* time of day, baseRate 11.2 plus the variation
SyntheticTable(startDate, endDate, variation) ==
    LET daysDiff == (endDate - startDate + TicksPerDay - 1) \div TicksPerDay
    IN  [i \in 1..(daysDiff + 1) |->
            [date |-> startDate + (i - 1) * TicksPerDay,
             rate |-> Add(<<56, 5>>, variation)]]

\* what loadHistoricalExchangeRates may return for a range
TableOutcomes(startDate, endDate) ==
    { [kind |-> "real", table |-> RealTable(startDate, endDate)] }
        \cup { [kind |-> "synthetic", table |-> SyntheticTable(startDate, endDate, v)] :
                 v \in Variations }

\* an invocation of loadFinancialData that is not running
NoLoad == [pc |-> "idle", timeframe |-> 0, startDate |-> 0, endDate |-> 0]

\* the loaders before the page has loaded anything
LoaderIdle ==
    /\ loads = EmptyBag
    /\ refresh = "idle"
    /\ cache = [data |-> Null, timestamp |-> 0, duration |-> CacheDuration]
    /\ rateLimiter = [requests |-> 0, lastReset |-> 0]
    /\ now = 0
    /\ loading = FALSE
    /\ origin = [rates |-> "none", cache |-> "none", table |-> "none"]

\* getCachedData that still returns the entry when its age equals its duration
getCachedData_Inclusive ==
    IF now - cache.timestamp <= cache.duration THEN cache.data ELSE Null

\* getCachedData('currencyRates')
getCachedData ==
    IF now - cache.timestamp < cache.duration THEN cache.data ELSE Null

\* setCachedData('currencyRates', data): the entry after the call
setCachedData(data) ==
    [data |-> data, timestamp |-> now,
     duration |-> IF cache.duration # 0 THEN cache.duration ELSE CacheDuration]

\* checkRateLimit(): [ok, limiter], the answer and rateLimiter after the call
checkRateLimit ==
    LET reset == now - rateLimiter.lastReset > ResetInterval
        limiter == IF reset THEN [requests |-> 0, lastReset |-> now] ELSE rateLimiter
    IN  IF limiter.requests >= MaxRequests
        THEN [ok |-> FALSE, limiter |-> limiter]
        ELSE [ok |-> TRUE, limiter |-> [limiter EXCEPT !.requests = @ + 1]]

\* loadCurrencyRates up to its first await: the cached rates, a return on the
\* rate limit, or a fetch under way
loadCurrencyRatesBegin ==
    IF getCachedData # Null
    THEN [kind |-> "cached", rates |-> getCachedData, limiter |-> rateLimiter]
    ELSE IF ~checkRateLimit.ok
    THEN [kind |-> "limited", rates |-> currencyRates, limiter |-> checkRateLimit.limiter]
    ELSE [kind |-> "fetch", rates |-> currencyRates, limiter |-> checkRateLimit.limiter]

\* the series of the main chart: convertedData of renderMainChart
renderMainChart(selectedCurrency) ==
    LET startRateData ==
            IF Len(historicalRates) > 0 /\ selectedCurrency = "NOK"
                /\ IndexCurrency = "USD"
            THEN FindByDay(currentData[1].date)
            ELSE 0
        startRate ==
            IF startRateData # 0 THEN historicalRates[startRateData].rate ELSE Null
    IN  convertDataToCurrency(currentData, selectedCurrency, IndexCurrency, startRate)

-----------------------------------------------------------------------------
(* The answer of the price feed *)

\* the bars of chart.result[0]: timestamp[i], the fields of
\* indicators.quote[0] at i and indicators.adjclose[0].adjclose[i]; null is
\* Null
RawBars ==
    { [timestamp |-> t, open |-> Num(9), high |-> Num(12), low |-> Num(8),
       close |-> c, volume |-> Num(1000), adjclose |-> a] :
        t \in 0..1, c \in {Null, Num(10)}, a \in {Null, Num(9)} }

\* the answers of the feed: the bars in any order, timestamps repeated or not
RawResults == UNION { [1..n -> RawBars] : n \in 0..MaxBars }

\* the point the map callback of processFinancialData builds from a bar
Item(bar) ==
    [date |-> bar.timestamp * 1000, open |-> bar.open, high |-> bar.high,
     low |-> bar.low,
     close |-> IF bar.adjclose # Null THEN bar.adjclose ELSE bar.close,
     volume |-> bar.volume, adjClose |-> bar.adjclose]

\* data.sort((a, b) => a.date - b.date), a stable sort: item goes behind the
\* sorted items that are not later than it
RECURSIVE SortByDate(_)
SortByDate(items) ==
    IF Len(items) <= 1 THEN items
    ELSE LET sorted == SortByDate(SubSeq(items, 1, Len(items) - 1))
             item == items[Len(items)]
             before == SelectSeq(sorted, LAMBDA x : x.date <= item.date)
             after == SelectSeq(sorted, LAMBDA x : x.date > item.date)
         IN  before \o <<item>> \o after

\* the data of processFinancialData(result)
processFinancialData(result) ==
    SortByDate(SelectSeq([i \in 1..Len(result) |-> Item(result[i])],
                         LAMBDA item : item.close # Null /\ item.close # NaN))

-----------------------------------------------------------------------------
(* The page: access, documents and intervals *)

\* the script's own state when a document has just been loaded: nothing
\* preloaded, no call of loadMarketOverview under way, no interval
ScriptFresh ==
    /\ initialized = FALSE
    /\ preload = "idle"
    /\ overviews = 0
    /\ marketOverviewInterval = 0
    /\ liveUpdateInterval = 0
    /\ timers = {}
    /\ nextTimer = 1

\* the dashboard as the analytics and the loaders find it: access granted,
\* initializeApp and preloadData through
PageRunning ==
    /\ dashboardAccess = "granted"
    /\ location = "index.html"
    /\ stage = "ready"
    /\ initialized = TRUE
    /\ preload = "done"
    /\ overviews = 0
    /\ marketOverviewInterval = 0
    /\ liveUpdateInterval = 0
    /\ timers = {}
    /\ nextTimer = 1

\* checkAccess that lets everybody in
checkAccess_Open(item) == TRUE

\* checkAccess: the item of sessionStorage must be 'granted'
checkAccess(item) == item = "granted"

\* clearInterval that leaves the interval running
clearInterval_Noop(running, handle) == running

\* clearInterval: the interval of the handle runs no more
clearInterval(running, handle) == { t \in running : t.id # handle }

\* the intervals left by if (handle) clearInterval(handle) and the setInterval
\* after it, which returns the next identifier
restartInterval(handle, callback) ==
    (IF handle # 0 THEN clearInterval(timers, handle) ELSE timers)
        \cup {[id |-> nextTimer, callback |-> callback]}

-----------------------------------------------------------------------------
(* The state machine *)

Idle ==
    [op |-> "idle", target |-> "USD", source |-> "USD", override |-> Null,
     date |-> 0, out |-> <<>>, rate |-> NaN, threw |-> FALSE,
     value |-> NaN, root |-> Sqrt(NaN), rows |-> <<>>,
     stats |-> [updated |-> FALSE], result |-> <<>>]

Overrides == {Null, Num(7)}

Init ==
    /\ currentData \in PriceSeries
    /\ historicalRates \in RateTables
    /\ currencyRates \in RateMaps
    /\ call = Idle
    /\ controls = [timeframe |-> 1, currency |-> "NOK"]
    /\ LoaderIdle
    /\ PageRunning

\* convertDataToCurrency writing the converted prices into the points of its
\* input
CallConvertDataToCurrency_InPlace ==
    /\ call.op = "idle"
    /\ \E t \in Currencies, s \in Currencies, o \in Overrides :
          /\ call' = [Idle EXCEPT !.op = "convertDataToCurrency",
                                  !.target = t, !.source = s, !.override = o,
                                  !.out = convertDataToCurrency(currentData, t, s, o)]
          /\ currentData' = convertDataToCurrency(currentData, t, s, o)
    /\ UNCHANGED <<historicalRates, currencyRates>>
    /\ UNCHANGED loaderVars

CallConvertDataToCurrency ==
    /\ call.op = "idle"
    /\ \E t \in Currencies, s \in Currencies, o \in Overrides :
          call' = [Idle EXCEPT !.op = "convertDataToCurrency",
                               !.target = t, !.source = s, !.override = o,
                               !.out = convertDataToCurrency(currentData, t, s, o)]
    /\ UNCHANGED <<currentData, historicalRates, currencyRates>>
    /\ UNCHANGED loaderVars

CallFindClosestRate ==
    /\ call.op = "idle"
    /\ \E d \in Times :
          call' = [Idle EXCEPT !.op = "findClosestRate", !.date = d,
                               !.rate = findClosestRate(d)]
    /\ UNCHANGED <<currentData, historicalRates, currencyRates>>
    /\ UNCHANGED loaderVars

CallCalculateCurrencyImpactOverTime ==
    /\ call.op = "idle"
    /\ \E t \in Currencies, s \in Currencies :
          call' = [Idle EXCEPT !.op = "calculateCurrencyImpactOverTime",
                               !.target = t, !.source = s,
                               !.out = calculateCurrencyImpactOverTime(currentData, t, s)]
    /\ UNCHANGED <<currentData, historicalRates, currencyRates>>
    /\ UNCHANGED loaderVars

CallCalculateIndexWithoutCurrencyChanges ==
    /\ call.op = "idle"
    /\ \E t \in Currencies, s \in Currencies :
          LET r == calculateIndexWithoutCurrencyChanges(currentData, t, s)
          IN  call' = [Idle EXCEPT !.op = "calculateIndexWithoutCurrencyChanges",
                                   !.target = t, !.source = s,
                                   !.out = r.out, !.threw = r.threw]
    /\ UNCHANGED <<currentData, historicalRates, currencyRates>>
    /\ UNCHANGED loaderVars

CallCalculateCurrencyImpact ==
    /\ call.op = "idle"
    /\ \E t \in Currencies, s \in Currencies :
          LET r == calculateCurrencyImpact(currentData, t, s)
          IN  call' = [Idle EXCEPT !.op = "calculateCurrencyImpact",
                                   !.target = t, !.source = s,
                                   !.value = r.value, !.threw = r.threw]
    /\ UNCHANGED <<currentData, historicalRates, currencyRates>>
    /\ UNCHANGED loaderVars

CallCalculateVolatility ==
    /\ call.op = "idle"
    /\ call' = [Idle EXCEPT !.op = "calculateVolatility",
                            !.root = calculateVolatility(currentData)]
    /\ UNCHANGED <<currentData, historicalRates, currencyRates>>
    /\ UNCHANGED loaderVars

CallUpdatePerformanceTable ==
    /\ call.op = "idle"
    /\ \E selectedCurrency \in DisplayCurrencies :
          call' = [Idle EXCEPT !.op = "updatePerformanceTable",
                               !.target = selectedCurrency,
                               !.rows = updatePerformanceTable(selectedCurrency)]
    /\ UNCHANGED <<currentData, historicalRates, currencyRates>>
    /\ UNCHANGED loaderVars

CallUpdateStatistics ==
    /\ call.op = "idle"
    /\ \E selectedCurrency \in DisplayCurrencies :
          call' = [Idle EXCEPT !.op = "updateStatistics",
                               !.target = selectedCurrency,
                               !.stats = updateStatistics(selectedCurrency)]
    /\ UNCHANGED <<currentData, historicalRates, currencyRates>>
    /\ UNCHANGED loaderVars

\* a series converted from A to B and the result back from B to A, both on
\* the static path
CallRoundTrip ==
    /\ call.op = "idle"
    /\ \E A \in DOMAIN currencyRates, B \in DOMAIN currencyRates :
          /\ ~(Len(historicalRates) > 0 /\ "NOK" \in {A, B} /\ "USD" \in {A, B})
          /\ call' = [Idle EXCEPT !.op = "roundTrip", !.source = A, !.target = B,
                                  !.out = convertStaticRounded(
                                             convertStaticRounded(currentData, B, A),
                                             A, B)]
    /\ UNCHANGED <<currentData, historicalRates, currencyRates>>
    /\ UNCHANGED loaderVars

Return ==
    /\ call.op # "idle"
    /\ call' = Idle
    /\ UNCHANGED <<currentData, historicalRates, currencyRates>>
    /\ UNCHANGED loaderVars

Next ==
    \/ CallConvertDataToCurrency
    \/ CallFindClosestRate
    \/ CallCalculateCurrencyImpactOverTime
    \/ CallCalculateIndexWithoutCurrencyChanges
    \/ CallCalculateCurrencyImpact
    \/ CallCalculateVolatility
    \/ CallUpdatePerformanceTable
    \/ CallUpdateStatistics
    \/ CallRoundTrip
    \/ Return

Spec == Init /\ [][Next]_vars

-----------------------------------------------------------------------------
(* The loading of the data *)

InitLoad ==
    /\ currentData = <<>>
    /\ historicalRates = <<>>
    /\ currencyRates = <<>>
    /\ call = Idle
    /\ controls = [timeframe |-> 1, currency |-> "NOK"]
    /\ LoaderIdle
    /\ PageRunning

\* no call is being looked at and no invocation is in the middle of its last
\* stretch: the next event can be handled
Ready == call.op = "idle" /\ \A r \in BagToSet(loads) : r.pc # "render"

\* one more invocation can be followed
FreeLoad == BagCardinality(loads) < Cardinality(Loads)

\* the invocations with q in the place of r
Replace(r, q) == (loads (-) SetToBag({r})) (+) SetToBag({q})

\* loadFinancialData up to its first await: showLoading(true), the controls
\* read, the price fetch under way
StartLoad(others) ==
    /\ loading' = TRUE
    /\ loads' = others (+) SetToBag({[NoLoad EXCEPT !.pc = "fetch",
                                                    !.timeframe = controls'.timeframe]})
    /\ UNCHANGED <<currentData, historicalRates, currencyRates, call,
                   refresh, cache, rateLimiter, now, origin>>

\* a change event of the timeframe or the currency select
ControlChange ==
    /\ UNCHANGED pageVars
    /\ Ready
    /\ FreeLoad
    /\ \E tf \in Timeframes, cur \in DisplayCurrencies :
          /\ (tf = controls.timeframe) # (cur = controls.currency)
          /\ controls' = [timeframe |-> tf, currency |-> cur]
    /\ StartLoad(loads)

\* the page becomes visible, the five-minute refresh, the preload
Trigger ==
    /\ UNCHANGED pageVars
    /\ Ready
    /\ FreeLoad
    /\ controls' = controls
    /\ StartLoad(loads)

\* the timer of a retry fires
RetryFires(r) ==
    /\ UNCHANGED pageVars
    /\ Ready
    /\ r.pc = "retry"
    /\ controls' = controls
    /\ StartLoad(loads (-) SetToBag({r}))

\* the assignments of loadFinancialData are in place and nothing is awaited
\* any more: the rest of the invocation runs before any other event
Complete(r, data, rates, table) ==
    /\ currentData' = data
    /\ currencyRates' = rates
    /\ historicalRates' = table
    /\ loads' = Replace(r, [NoLoad EXCEPT !.pc = "render"])
    /\ UNCHANGED <<call, loading>>

\* the end of loadFinancialData from the double check of the rates on:
\* the render and the two tables, or the retry in 3 seconds, then
\* showLoading(false)
Render_NoRetry(r) ==
    /\ UNCHANGED pageVars
    /\ r.pc = "render"
    /\ IF DOMAIN currencyRates # {}
       THEN /\ call' = [Idle EXCEPT !.op = "renderChart",
                                    !.target = controls.currency,
                                    !.out = renderMainChart(controls.currency),
                                    !.stats = updateStatistics(controls.currency),
                                    !.rows = updatePerformanceTable(controls.currency)]
       ELSE /\ call' = call
    /\ loads' = loads (-) SetToBag({r})
    /\ loading' = FALSE
    /\ UNCHANGED <<currentData, historicalRates, currencyRates, controls,
                   refresh, cache, rateLimiter, now, origin>>

Render(r) ==
    /\ UNCHANGED pageVars
    /\ r.pc = "render"
    /\ IF DOMAIN currencyRates # {}
       THEN /\ call' = [Idle EXCEPT !.op = "renderChart",
                                    !.target = controls.currency,
                                    !.out = renderMainChart(controls.currency),
                                    !.stats = updateStatistics(controls.currency),
                                    !.rows = updatePerformanceTable(controls.currency)]
            /\ loads' = loads (-) SetToBag({r})
       ELSE /\ call' = call
            /\ loads' = Replace(r, [NoLoad EXCEPT !.pc = "retry"])
    /\ loading' = FALSE
    /\ UNCHANGED <<currentData, historicalRates, currencyRates, controls,
                   refresh, cache, rateLimiter, now, origin>>

\* loadFinancialData from the rates check on: the call of
\* loadHistoricalExchangeRates for the range of currentData, or the end
AwaitTable(r, data, rates) ==
    IF Len(data) > 0
    THEN /\ currentData' = data
         /\ currencyRates' = rates
         /\ loads' = Replace(r, [NoLoad EXCEPT !.pc = "hist",
                                               !.startDate = data[1].date,
                                               !.endDate = data[Len(data)].date])
         /\ UNCHANGED <<historicalRates, call, loading>>
    ELSE Complete(r, data, rates, historicalRates)

\* the price fetch settles: the catch block with its retry in 5 seconds, or
\* currentData replaced and the code up to the next await
FetchSettles(r) ==
    /\ UNCHANGED pageVars
    /\ Ready
    /\ r.pc = "fetch"
    /\ UNCHANGED <<controls, refresh, cache, now>>
    /\ \/ /\ loads' = Replace(r, [NoLoad EXCEPT !.pc = "retry"])
          /\ loading' = FALSE
          /\ UNCHANGED <<currentData, historicalRates, currencyRates, call,
                         rateLimiter, origin>>
       \/ LET data == PriceFeed(r.timeframe)
              begin == loadCurrencyRatesBegin
          IN  IF DOMAIN currencyRates # {}
              THEN /\ AwaitTable(r, data, currencyRates)
                   /\ UNCHANGED <<rateLimiter, origin>>
              ELSE /\ rateLimiter' = begin.limiter
                   /\ IF begin.kind = "fetch"
                      THEN /\ currentData' = data
                           /\ loads' = Replace(r, [NoLoad EXCEPT !.pc = "rates"])
                           /\ UNCHANGED <<historicalRates, currencyRates, call,
                                          loading, origin>>
                      ELSE /\ AwaitTable(r, data, begin.rates)
                           /\ origin' = IF begin.kind = "cached"
                                        THEN [origin EXCEPT !.rates = origin.cache]
                                        ELSE origin

\* the fetches of the awaited loadCurrencyRates settle: the rates of a feed
\* or the fallback rates, cached either way; loadFinancialData goes on
RatesSettle(r) ==
    /\ UNCHANGED pageVars
    /\ Ready
    /\ r.pc = "rates"
    /\ UNCHANGED <<controls, refresh, rateLimiter, now>>
    /\ \E o \in RateOutcomes :
          /\ cache' = setCachedData(o.rates)
          /\ origin' = [origin EXCEPT !.rates = o.kind, !.cache = o.kind]
          /\ AwaitTable(r, currentData, o.rates)

\* loadHistoricalExchangeRates settles: historicalRates replaced, then the
\* end of loadFinancialData
TableSettles(r) ==
    /\ UNCHANGED pageVars
    /\ Ready
    /\ r.pc = "hist"
    /\ UNCHANGED <<controls, refresh, cache, rateLimiter, now>>
    /\ \E o \in TableOutcomes(r.startDate, r.endDate) :
          /\ origin' = [origin EXCEPT !.table = o.kind]
          /\ Complete(r, currentData, currencyRates, o.table)

\* loadCurrencyRates called by the preload or the refresh timer, up to its
\* first await
StartLoadCurrencyRates ==
    /\ UNCHANGED pageVars
    /\ Ready
    /\ refresh = "idle"
    /\ LET begin == loadCurrencyRatesBegin
       IN  /\ rateLimiter' = begin.limiter
           /\ currencyRates' = begin.rates
           /\ refresh' = IF begin.kind = "fetch" THEN "fetch" ELSE "idle"
           /\ origin' = IF begin.kind = "cached"
                        THEN [origin EXCEPT !.rates = origin.cache]
                        ELSE origin
    /\ UNCHANGED <<currentData, historicalRates, call, controls, loads, cache,
                   now, loading>>

\* its fetches settle
FinishLoadCurrencyRates ==
    /\ UNCHANGED pageVars
    /\ Ready
    /\ refresh = "fetch"
    /\ \E o \in RateOutcomes :
          /\ currencyRates' = o.rates
          /\ cache' = setCachedData(o.rates)
          /\ origin' = [origin EXCEPT !.rates = o.kind, !.cache = o.kind]
    /\ refresh' = "idle"
    /\ UNCHANGED <<currentData, historicalRates, call, controls, loads,
                   rateLimiter, now, loading>>

\* exportData: generateCSV converts currentData for the selected currency
ExportData ==
    /\ Ready
    /\ currentData # <<>>
    /\ call' = [Idle EXCEPT !.op = "exportData", !.target = controls.currency,
                            !.out = convertDataToCurrency(currentData, controls.currency,
                                                          IndexCurrency, Null)]
    /\ UNCHANGED <<currentData, historicalRates, currencyRates>>
    /\ UNCHANGED loaderVars

\* time passes
Tick ==
    /\ UNCHANGED pageVars
    /\ Ready
    /\ now < MaxNow
    /\ now' = now + 1
    /\ UNCHANGED <<currentData, historicalRates, currencyRates, call, controls,
                   loads, refresh, cache, rateLimiter, loading, origin>>

NextLoad ==
    \/ ControlChange
    \/ Trigger
    \/ \E r \in BagToSet(loads) : RetryFires(r)
    \/ \E r \in BagToSet(loads) : FetchSettles(r)
    \/ \E r \in BagToSet(loads) : RatesSettle(r)
    \/ \E r \in BagToSet(loads) : TableSettles(r)
    \/ \E r \in BagToSet(loads) : Render(r)
    \/ StartLoadCurrencyRates
    \/ FinishLoadCurrencyRates
    \/ ExportData
    \/ Tick
    \/ Return

SpecLoad == InitLoad /\ [][NextLoad]_vars

-----------------------------------------------------------------------------
(* The loading of the data under the scheduling of the event loop *)

\* the price fetch of an invocation settles with a valid answer
FetchSucceeds(r) ==
    /\ FetchSettles(r)
    /\ loads' # Replace(r, [NoLoad EXCEPT !.pc = "retry"])

\* a timer that is due fires, a callback that is queued runs, and a feed that
\* is asked again and again answers again and again; the rendering of an
\* invocation whose awaits are over is the only step the page can take, so
\* its fairness is that the page leaves that position again and again
FairLoad ==
    /\ SF_vars(\E r \in BagToSet(loads) : RetryFires(r))
    /\ SF_vars(\E r \in BagToSet(loads) : FetchSucceeds(r))
    /\ SF_vars(\E r \in BagToSet(loads) : RatesSettle(r))
    /\ SF_vars(\E r \in BagToSet(loads) : TableSettles(r))
    /\ []<>(\A r \in BagToSet(loads) : r.pc # "render")
    /\ SF_vars(FinishLoadCurrencyRates)
    /\ SF_vars(Return)

\* the steps of the page while the user leaves the controls and the export
\* button alone
NextRetry ==
    \/ Trigger
    \/ \E r \in BagToSet(loads) : RetryFires(r)
    \/ \E r \in BagToSet(loads) : FetchSettles(r)
    \/ \E r \in BagToSet(loads) : RatesSettle(r)
    \/ \E r \in BagToSet(loads) : TableSettles(r)
    \/ \E r \in BagToSet(loads) : Render(r)
    \/ StartLoadCurrencyRates
    \/ FinishLoadCurrencyRates
    \/ Tick
    \/ Return

SpecLoadFair == InitLoad /\ [][NextRetry]_vars /\ FairLoad

-----------------------------------------------------------------------------
(* The processing of the price feed's answers *)

\* an answer of the feed has arrived
InitFeed ==
    /\ currentData = <<>>
    /\ historicalRates = <<>>
    /\ currencyRates = <<>>
    /\ call \in { [Idle EXCEPT !.result = r] : r \in RawResults }
    /\ controls = [timeframe |-> 1, currency |-> "NOK"]
    /\ LoaderIdle
    /\ PageRunning

\* currentData = processFinancialData(data.chart.result[0])
CallProcessFinancialData ==
    /\ call.op = "idle"
    /\ call' = [call EXCEPT !.op = "processFinancialData",
                            !.out = processFinancialData(call.result)]
    /\ currentData' = processFinancialData(call.result)
    /\ UNCHANGED <<historicalRates, currencyRates>>
    /\ UNCHANGED loaderVars

NextFeed ==
    \/ CallProcessFinancialData
    \/ Return

SpecFeed == InitFeed /\ [][NextFeed]_vars

-----------------------------------------------------------------------------
(* The page from the login to the logout *)

\* what the data functions and the loaders keep
dashboardVars ==
    <<currentData, historicalRates, currencyRates, call,
      controls, loads, refresh, cache, rateLimiter, now, loading, origin>>

InitPage ==
    /\ currentData = <<>>
    /\ historicalRates = <<>>
    /\ currencyRates = <<>>
    /\ call = Idle
    /\ controls = [timeframe |-> 1, currency |-> "NOK"]
    /\ LoaderIdle
    /\ dashboardAccess = "absent"
    /\ location = "login.html"
    /\ stage = "none"
    /\ ScriptFresh

\* the script state of a document that has just been loaded
LoadScript ==
    /\ initialized' = FALSE
    /\ preload' = "idle"
    /\ overviews' = 0
    /\ marketOverviewInterval' = 0
    /\ liveUpdateInterval' = 0
    /\ timers' = {}
    /\ nextTimer' = 1

\* the login page accepts the password: it grants the access for the session
\* and opens the dashboard
Login ==
    /\ location = "login.html"
    /\ dashboardAccess' = "granted"
    /\ location' = "index.html"
    /\ stage' = "parsed"
    /\ LoadScript
    /\ UNCHANGED dashboardVars

\* the user opens or reloads the dashboard by its address
OpenDashboard ==
    /\ stage \in {"none", "ready"}
    /\ location' = "index.html"
    /\ stage' = "parsed"
    /\ LoadScript
    /\ UNCHANGED <<dashboardAccess, dashboardVars>>

\* the DOMContentLoaded listener: initializeApp up to the first await of
\* preloadData when checkAccess allows it, the redirection to login.html
\* otherwise
DOMContentLoaded ==
    /\ stage = "parsed"
    /\ IF checkAccess(dashboardAccess)
       THEN /\ stage' = "ready"
            /\ initialized' = TRUE
            /\ preload' = "rates"
       ELSE /\ stage' = "leaving"
            /\ UNCHANGED <<initialized, preload>>
    /\ UNCHANGED <<dashboardAccess, location, overviews, marketOverviewInterval,
                   liveUpdateInterval, timers, nextTimer, dashboardVars>>

\* the navigation that a redirection has started replaces the document
Leave ==
    /\ stage = "leaving"
    /\ location' = "login.html"
    /\ stage' = "none"
    /\ LoadScript
    /\ UNCHANGED <<dashboardAccess, dashboardVars>>

\* logout, the click listener of the logout button
Logout ==
    /\ stage = "ready"
    /\ dashboardAccess' = "absent"
    /\ stage' = "leaving"
    /\ UNCHANGED <<location, initialized, preload, overviews,
                   marketOverviewInterval, liveUpdateInterval, timers,
                   nextTimer, dashboardVars>>

\* loadMarketOverview up to its await
StartOverview ==
    /\ overviews < MaxOverviews
    /\ overviews' = overviews + 1

\* preloadData after loadCurrencyRates: loadMarketOverview is called and
\* loadFinancialData awaited
PreloadRates ==
    /\ preload = "rates"
    /\ StartOverview
    /\ preload' = "data"
    /\ UNCHANGED <<dashboardAccess, location, stage, initialized,
                   marketOverviewInterval, liveUpdateInterval, timers,
                   nextTimer, dashboardVars>>

\* preloadData after loadFinancialData
PreloadData ==
    /\ preload = "data"
    /\ preload' = "done"
    /\ UNCHANGED <<dashboardAccess, location, stage, initialized, overviews,
                   marketOverviewInterval, liveUpdateInterval, timers,
                   nextTimer, dashboardVars>>

\* the visibilitychange listener when the page has become visible
VisibilityChange ==
    /\ initialized
    /\ StartOverview
    /\ UNCHANGED <<dashboardAccess, location, stage, initialized, preload,
                   marketOverviewInterval, liveUpdateInterval, timers,
                   nextTimer, dashboardVars>>

\* the 30-second refresh check of the script finds the market overview due
RefreshCheck ==
    /\ stage \in {"parsed", "ready", "leaving"}
    /\ StartOverview
    /\ UNCHANGED <<dashboardAccess, location, stage, initialized, preload,
                   marketOverviewInterval, liveUpdateInterval, timers,
                   nextTimer, dashboardVars>>

\* the answers of a loadMarketOverview are in: renderMarketOverview, which
\* throws without the elements of initializeApp, and then
\* startMarketOverviewUpdates
OverviewSettles ==
    /\ overviews > 0
    /\ overviews' = overviews - 1
    /\ IF initialized
       THEN /\ nextTimer <= MaxTimers
            /\ timers' = restartInterval(marketOverviewInterval, "marketOverview")
            /\ marketOverviewInterval' = nextTimer
            /\ nextTimer' = nextTimer + 1
       ELSE UNCHANGED <<marketOverviewInterval, timers, nextTimer>>
    /\ UNCHANGED <<dashboardAccess, location, stage, initialized, preload,
                   liveUpdateInterval, dashboardVars>>

\* a call of startLiveUpdates
StartLiveUpdates ==
    /\ initialized
    /\ nextTimer <= MaxTimers
    /\ timers' = restartInterval(liveUpdateInterval, "liveUpdate")
    /\ liveUpdateInterval' = nextTimer
    /\ nextTimer' = nextTimer + 1
    /\ UNCHANGED <<dashboardAccess, location, stage, initialized, preload,
                   overviews, marketOverviewInterval, dashboardVars>>

NextPage ==
    \/ Login
    \/ OpenDashboard
    \/ DOMContentLoaded
    \/ Leave
    \/ Logout
    \/ PreloadRates
    \/ PreloadData
    \/ VisibilityChange
    \/ RefreshCheck
    \/ OverviewSettles
    \/ StartLiveUpdates

SpecPage == InitPage /\ [][NextPage]_vars

-----------------------------------------------------------------------------
(* Properties *)

IsFinite(x) == x[2] # 0

\* the indexes of the table entries on the calendar day of time value t
SameDay(t) ==
    { i \in 1..Len(historicalRates) :
        toDateString(historicalRates[i].date) = toDateString(t) }

Min(S) == CHOOSE i \in S : \A j \in S : i <= j

\* the rate convertDataToCurrency is to use for point index on the table path
LookupRate(index, override) ==
    IF index = 1 /\ override # Null THEN override
    ELSE findClosestRate(currentData[index].date)

\* item with its five price fields multiplied by rate, everything else kept
PricesTimes(item, out, rate) ==
    /\ out.open = Mul(item.open, rate)
    /\ out.high = Mul(item.high, rate)
    /\ out.low = Mul(item.low, rate)
    /\ out.close = Mul(item.close, rate)
    /\ out.adjClose = Mul(item.adjClose, rate)

\* C1: with target = source, convertDataToCurrency returns the input series,
\* every field of every point equal and in the same order, whatever the rate
\* table, the current-rate mapping and startRateOverride are.
C1_Identity ==
    (call.op = "convertDataToCurrency" /\ call.target = call.source)
        => /\ Len(call.out) = Len(currentData)
           /\ \A i \in 1..Len(currentData) : call.out[i] = currentData[i]

C1_Witness ==
    /\ call.op = "convertDataToCurrency"
    /\ call.target = "NOK" /\ call.source = "NOK"
    /\ Len(currentData) >= 2
    /\ Len(historicalRates) > 0
    /\ call.override # Null
    /\ currencyRates = <<>>
    /\ call.out = currentData

\* C2: on a non-empty table, a query whose calendar day (time of day ignored)
\* is the day of a table entry gets the rate of an entry of that day: exactly
\* that entry's rate when it is the only one of its day.
C2_ExactMatch ==
    (call.op = "findClosestRate" /\ SameDay(call.date) # {})
        => /\ call.rate \in { historicalRates[i].rate : i \in SameDay(call.date) }
           /\ \A i \in SameDay(call.date) :
                SameDay(call.date) = {i} => call.rate = historicalRates[i].rate

C2_Witness ==
    /\ call.op = "findClosestRate"
    /\ Len(historicalRates) = 2
    /\ SameDay(call.date) = {2}
    /\ historicalRates[2].date # call.date
    /\ Abs(call.date - historicalRates[1].date)
         <= Abs(call.date - historicalRates[2].date)
    /\ call.rate = historicalRates[2].rate

\* distance in calendar days between two time values
DayDistance(t, u) == Abs(toDateString(t) - toDateString(u))

\* the table holds at most one entry per calendar day
OnePerDay ==
    \A i, j \in 1..Len(historicalRates) :
        toDateString(historicalRates[i].date) = toDateString(historicalRates[j].date)
            => i = j

\* C3: on a non-empty table (one entry per calendar day) and a query without
\* an exact calendar-day match, the lookup returns the rate of the entry
\* nearest in calendar days, the earlier entry when two are equally far,
\* whatever the times of day of the query and of the entries are.
C3_NearestByDay ==
    (call.op = "findClosestRate" /\ Len(historicalRates) > 0 /\ OnePerDay
        /\ SameDay(call.date) = {})
        => LET n == Len(historicalRates)
               nearest == { i \in 1..n : \A j \in 1..n :
                              DayDistance(call.date, historicalRates[i].date)
                                <= DayDistance(call.date, historicalRates[j].date) }
           IN  call.rate = historicalRates[Min(nearest)].rate

\* C4 as stated: with a non-empty table and different currencies, every point
\* is multiplied by the lookup's rate for its own date (the first by the
\* override when one is given), never by the static current rate.
C4_TableAnyPair ==
    (call.op = "convertDataToCurrency" /\ Len(historicalRates) > 0
        /\ call.target # call.source)
        => /\ Len(call.out) = Len(currentData)
           /\ \A i \in 1..Len(currentData) :
                PricesTimes(currentData[i], call.out[i], LookupRate(i, call.override))

\* C4 amended: with a non-empty table, target NOK and source USD, every point
\* is multiplied by the lookup's rate for its own date, the first point by
\* startRateOverride when one is given.
C4_TableUsdNok ==
    (call.op = "convertDataToCurrency" /\ Len(historicalRates) > 0
        /\ call.target = "NOK" /\ call.source = "USD")
        => /\ Len(call.out) = Len(currentData)
           /\ \A i \in 1..Len(currentData) :
                PricesTimes(currentData[i], call.out[i], LookupRate(i, call.override))

C4_Witness ==
    /\ call.op = "convertDataToCurrency"
    /\ call.target = "NOK" /\ call.source = "USD"
    /\ Len(historicalRates) = 2
    /\ Len(currentData) >= 2
    /\ call.override = Num(7)
    /\ call.out[1].close = Mul(currentData[1].close, Num(7))
    /\ call.out[2].close = Mul(currentData[2].close, historicalRates[2].rate)
    /\ RateOf("NOK") \notin {NaN, historicalRates[2].rate}

\* C5: with an empty table and different currencies every point's price
\* fields are multiplied by the one rate currencyRates[target] /
\* currencyRates[source].
C5_StaticRate ==
    (call.op = "convertDataToCurrency" /\ Len(historicalRates) = 0
        /\ call.target # call.source)
        => /\ Len(call.out) = Len(currentData)
           /\ \A i \in 1..Len(currentData) :
                PricesTimes(currentData[i], call.out[i],
                            Div(RateOf(call.target), RateOf(call.source)))

\* rates {USD: 1, NOK: 10}, closes [100, 110] give [1000, 1100]
C5_Witness ==
    /\ call.op = "convertDataToCurrency"
    /\ call.target = "NOK" /\ call.source = "USD"
    /\ Len(historicalRates) = 0
    /\ RateOf("USD") = Num(1) /\ RateOf("NOK") = Num(10)
    /\ Len(currentData) = 2
    /\ currentData[1].close = Num(100) /\ currentData[2].close = Num(110)
    /\ call.out[1].close = Num(1000) /\ call.out[2].close = Num(1100)

\* C6: on every path of convertDataToCurrency the output is as long as the
\* input, point i keeps the date and the volume of input point i, and has the
\* same fields.
C6_Frame ==
    call.op = "convertDataToCurrency"
        => /\ Len(call.out) = Len(currentData)
           /\ \A i \in 1..Len(currentData) :
                /\ DOMAIN call.out[i] = DOMAIN currentData[i]
                /\ call.out[i].date = currentData[i].date
                /\ call.out[i].volume = currentData[i].volume

C6_Witness ==
    /\ call.op = "convertDataToCurrency"
    /\ call.target = "NOK" /\ call.source = "USD"
    /\ Len(historicalRates) > 0
    /\ Len(currentData) = MaxPoints
    /\ \A i \in 1..Len(currentData) :
         /\ call.out[i].close # currentData[i].close
         /\ call.out[i].volume = currentData[i].volume

C8_StartRateByLookup ==
    (call.op = "calculateIndexWithoutCurrencyChanges"
        /\ Len(historicalRates) > 0 /\ Len(currentData) > 0)
        => /\ Len(call.out) = Len(currentData)
           /\ \A i \in 1..Len(currentData) :
                call.out[i].value =
                    Mul(currentData[i].close, findClosestRate(currentData[1].date))

\* C8 amended: on a non-empty table and a non-empty series, when some entry is
\* of the first point's calendar day the series has one value per point,
\* close[i] times the rate of the first such entry; when none is, the series
\* is empty.
C8_StartRateExactDay ==
    (call.op = "calculateIndexWithoutCurrencyChanges"
        /\ Len(historicalRates) > 0 /\ Len(currentData) > 0)
        => LET days == SameDay(currentData[1].date)
           IN  /\ ~call.threw
               /\ days = {} => call.out = <<>>
               /\ days # {} =>
                    /\ Len(call.out) = Len(currentData)
                    /\ \A i \in 1..Len(currentData) :
                         /\ call.out[i].date = currentData[i].date
                         /\ call.out[i].value =
                              Mul(currentData[i].close,
                                  historicalRates[Min(days)].rate)

C8_Witness ==
    /\ call.op = "calculateIndexWithoutCurrencyChanges"
    /\ Len(currentData) >= 2
    /\ SameDay(currentData[1].date) = {2}
    /\ SameDay(currentData[2].date) = {}
    /\ Len(call.out) = Len(currentData)
    /\ call.out[2].value = Mul(currentData[2].close, historicalRates[2].rate)

Failed == call.threw \/ call.out = <<>>

\* C10 as stated: on a non-empty series the counterfactual computation fails
\* exactly when the table is empty; it never fails when the table has an
\* entry.
C10_FailsOnlyOnEmptyTable ==
    (call.op = "calculateIndexWithoutCurrencyChanges" /\ Len(currentData) > 0)
        => (Failed <=> Len(historicalRates) = 0)

\* C10 amended: on a non-empty series the counterfactual computation returns
\* the empty series, and throws nothing, exactly when no table entry is of the
\* first point's calendar day (an empty table included); an entry of that day
\* always yields a full series.
C10_FailsWithoutExactDay ==
    (call.op = "calculateIndexWithoutCurrencyChanges" /\ Len(currentData) > 0)
        => /\ ~call.threw
           /\ call.out = <<>> <=> SameDay(currentData[1].date) = {}
           /\ call.out # <<>> => Len(call.out) = Len(currentData)

C10_Witness ==
    /\ call.op = "calculateIndexWithoutCurrencyChanges"
    /\ Len(currentData) > 0
    /\ Len(historicalRates) = 2
    /\ SameDay(currentData[1].date) = {}
    /\ \E i \in 1..2 : DayDistance(currentData[1].date, historicalRates[i].date) = 1
    /\ call.out = <<>>
    /\ ~call.threw

\* (endPrice - startPrice) / startPrice * 100
ReturnPct(startPrice, endPrice) ==
    Mul(Div(Sub(endPrice, startPrice), startPrice), Num(100))

\* the sub-range of currentData a table row of the given period covers
SubRange(days) ==
    SubSeq(currentData, PeriodRange(days).startIndex + 1,
           PeriodRange(days).endIndex + 1)

\* the total return on the converter's closes at either end of a series
ConverterReturn(data, targetCurrency) ==
    LET converted == convertDataToCurrency(data, targetCurrency, IndexCurrency, Null)
    IN  ReturnPct(converted[1].close, converted[Len(converted)].close)

\* the sum of the currency-impact series computed over a series
ImpactSum(data, targetCurrency, sourceCurrency) ==
    LET series == calculateCurrencyImpactOverTime(data, targetCurrency, sourceCurrency)
    IN  Sum([i \in 1..Len(series) |-> series[i].impact])

\* the static current rate between two currencies
StaticRate(targetCurrency, sourceCurrency) ==
    Div(RateOf(targetCurrency), RateOf(sourceCurrency))

\* the converter takes the static-rate path for this pair of different
\* currencies
StaticPath(targetCurrency, sourceCurrency) ==
    ~(Len(historicalRates) > 0 /\ targetCurrency = "NOK" /\ sourceCurrency = "USD")

\* the converter's close of the first point of a series
ConverterStart(data, targetCurrency, sourceCurrency) ==
    convertDataToCurrency(data, targetCurrency, sourceCurrency, Null)[1].close

\* the current-rate mapping holds both display currencies
RatesLoaded == {"USD", "NOK"} \subseteq DOMAIN currencyRates

\* C11: for every sub-range whose converted start price is not 0, the total
\* return of the summarizer is (endPrice - startPrice) / startPrice * 100 on
\* the converter's closes of the first and the last point of the sub-range:
\* in every row of the performance table, and in the USD and the NOK figure
\* of the statistics boxes (current rates loaded).
C11_TotalReturn ==
    /\ (call.op = "updatePerformanceTable" /\ RatesLoaded) =>
         \A k \in 1..Len(call.rows) :
            LET sub == SubRange(call.rows[k].days)
            IN  ConverterStart(sub, call.target, IndexCurrency) # Num(0) =>
                  call.rows[k].totalReturn = ConverterReturn(sub, call.target)
    /\ (call.op = "updateStatistics" /\ call.stats.updated /\ RatesLoaded) =>
         /\ ConverterStart(currentData, "USD", IndexCurrency) # Num(0) =>
              call.stats.totalReturnPercentUSD = ConverterReturn(currentData, "USD")
         /\ ConverterStart(currentData, "NOK", IndexCurrency) # Num(0) =>
              call.stats.totalReturnPercentNOK = ConverterReturn(currentData, "NOK")

\* C12 as stated: for every non-empty sub-range (current rates loaded, start
\* price not 0) the currency impact percentage is 100 times the sum of the
\* impact series over the sub-range divided by the converter's close of the
\* sub-range's first point, the start price of the total return.
C12_ImpactOverConverterStart ==
    /\ (call.op = "calculateCurrencyImpact" /\ Len(currentData) > 0
          /\ {call.target, call.source} \subseteq DOMAIN currencyRates
          /\ currentData[1].close # Num(0)) =>
         call.value =
            Mul(Div(ImpactSum(currentData, call.target, call.source),
                    ConverterStart(currentData, call.target, call.source)),
                Num(100))
    /\ (call.op = "updatePerformanceTable" /\ RatesLoaded) =>
         \A k \in 1..Len(call.rows) :
            LET sub == SubRange(call.rows[k].days)
            IN  sub[1].close # Num(0) =>
                  call.rows[k].currencyImpact =
                     Mul(Div(ImpactSum(sub, call.target, IndexCurrency),
                             ConverterStart(sub, call.target, IndexCurrency)),
                         Num(100))

\* the percentage calculateCurrencyImpact is to return for a non-empty series
StaticImpactPct(data, targetCurrency, sourceCurrency) ==
    IF targetCurrency = sourceCurrency THEN Num(0)
    ELSE Mul(Div(ImpactSum(data, targetCurrency, sourceCurrency),
                 Mul(data[1].close, StaticRate(targetCurrency, sourceCurrency))),
             Num(100))

\* C12 amended: the currency impact percentage of a non-empty sub-range is 0
\* for equal currencies and otherwise 100 times the sum of the impact series
\* over the sub-range divided by the first unconverted close times the static
\* current rate; that divisor is the converter's close of the first point
\* exactly when the converter takes the static-rate path or the looked-up rate
\* of the first point equals the static rate.
C12_ImpactOverStaticStart ==
    /\ (call.op = "calculateCurrencyImpact" /\ Len(currentData) > 0) =>
         /\ ~call.threw
         /\ call.value = StaticImpactPct(currentData, call.target, call.source)
         /\ (call.target # call.source /\ StaticPath(call.target, call.source)) =>
              ConverterStart(currentData, call.target, call.source) =
                 Mul(currentData[1].close, StaticRate(call.target, call.source))
    /\ call.op = "updatePerformanceTable" =>
         \A k \in 1..Len(call.rows) :
            LET sub == SubRange(call.rows[k].days)
            IN  /\ call.rows[k].currencyImpact =
                     StaticImpactPct(sub, call.target, IndexCurrency)
                /\ (call.target # IndexCurrency
                      /\ StaticPath(call.target, IndexCurrency)) =>
                     ConverterStart(sub, call.target, IndexCurrency) =
                        Mul(sub[1].close, StaticRate(call.target, IndexCurrency))

\* a one-week row that starts after the first point, converted on the table
\* path at rate 10: sum -1000 over 200 * 11 gives -500/11, the full range 0
C12_Witness ==
    /\ call.op = "updatePerformanceTable"
    /\ call.target = "NOK"
    /\ Len(historicalRates) > 0
    /\ RateOf("USD") = Num(1) /\ RateOf("NOK") = Num(11)
    /\ Len(call.rows) = Len(periods)
    /\ PeriodRange(call.rows[1].days).startIndex = 1
    /\ SubRange(call.rows[1].days)[1].close = Num(200)
    /\ ConverterStart(SubRange(call.rows[1].days), "NOK", IndexCurrency) = Num(2000)
    /\ call.rows[1].currencyImpact = <<-500, 11>>
    /\ call.rows[2].currencyImpact = Num(0)

\* JavaScript's === on numbers: NaN equals nothing
StrictEq(x, y) == x # NaN /\ y # NaN /\ x = y

\* C13: in every row the performance table produces (current rates loaded),
\* total return = currency impact + local return holds exactly.
C13_Decomposition ==
    (call.op = "updatePerformanceTable" /\ RatesLoaded) =>
        \A k \in 1..Len(call.rows) :
            StrictEq(call.rows[k].totalReturn,
                     Add(call.rows[k].currencyImpact, call.rows[k].localReturn))

\* the series starts with a close of 0
StartsAtZero == Len(currentData) > 0 /\ currentData[1].close = Num(0)

\* the percentages a call of the summarizer has handed out
Percentages ==
    IF call.op = "calculateCurrencyImpact" THEN {call.value}
    ELSE IF call.op = "updatePerformanceTable"
    THEN UNION { {call.rows[k].totalReturn, call.rows[k].currencyImpact,
                  call.rows[k].localReturn} : k \in 1..Len(call.rows) }
    ELSE IF call.op = "updateStatistics" /\ call.stats.updated
    THEN {call.stats.totalReturnPercentUSD, call.stats.totalReturnPercentNOK,
          call.stats.priceChangePercentUSD, call.stats.priceChangePercentNOK,
          call.stats.currencyImpactPercentNOK}
    ELSE {}

\* C14: when the start price of the range is 0 (at least two points, current
\* rates loaded, different currencies for the impact), the percentage
\* computations of the summarizer signal a failure to the caller and hand out
\* no Infinity or NaN.
C14_DivisionByZero ==
    (/\ call.op \in {"calculateCurrencyImpact", "updatePerformanceTable",
                     "updateStatistics"}
     /\ call.op = "calculateCurrencyImpact" =>
          (call.target # call.source
             /\ {call.target, call.source} \subseteq DOMAIN currencyRates)
     /\ StartsAtZero /\ Len(currentData) >= 2 /\ RatesLoaded)
        => /\ call.threw
           /\ \A x \in Percentages : IsFinite(x)

\* C15: on an empty series updateStatistics, updatePerformanceTable,
\* calculateCurrencyImpact and calculateIndexWithoutCurrencyChanges do not
\* throw.
C15_EmptySeriesNoThrow ==
    (/\ call.op \in {"updateStatistics", "updatePerformanceTable",
                     "calculateCurrencyImpact",
                     "calculateIndexWithoutCurrencyChanges"}
     /\ Len(currentData) = 0)
        => ~call.threw

\* the simple returns (close[i] - close[i-1]) / close[i-1] of currentData
SimpleReturns ==
    [i \in 1..(IF Len(currentData) = 0 THEN 0 ELSE Len(currentData) - 1) |->
        Div(Sub(currentData[i + 1].close, currentData[i].close),
            currentData[i].close)]

\* the sum of the squared deviations of the returns from their mean, as the
\* sum of the squares minus n times the squared mean
SquaredDeviations ==
    LET n == Len(SimpleReturns)
        mean == Div(Sum(SimpleReturns), Num(n))
    IN  Sub(Sum([i \in 1..n |-> Mul(SimpleReturns[i], SimpleReturns[i])]),
            Mul(Num(n), Mul(mean, mean)))

\* the square of a standard deviation with the given divisor, annualised by
\* sqrt(252) and expressed in percent
AnnualisedSquare(divisor) ==
    Mul(Mul(Div(SquaredDeviations, Num(divisor)), Num(252)), Num(100 * 100))

\* C16 as stated: calculateVolatility returns the sample standard deviation
\* (divisor n - 1) of the n simple returns of the closes, times sqrt(252)
\* times 100, and NaN for fewer than 2 points.
C16_SampleDeviation ==
    call.op = "calculateVolatility" =>
        call.root.sqrtOf =
            IF Len(currentData) < 2 THEN NaN
            ELSE AnnualisedSquare(Len(SimpleReturns) - 1)

\* C16 amended: calculateVolatility returns the population standard deviation
\* (divisor n) of the n simple returns of the closes, times sqrt(252) times
\* 100; NaN for fewer than 2 points and whenever a close that a return
\* divides by is 0, and 0 for exactly 2 points with a non-zero first close.
C16_PopulationDeviation ==
    call.op = "calculateVolatility" =>
        /\ call.root.sqrtOf =
              IF Len(currentData) < 2 THEN NaN
              ELSE AnnualisedSquare(Len(SimpleReturns))
        /\ (\E i \in 1..Len(SimpleReturns) : currentData[i].close = Num(0))
              => call.root.sqrtOf = NaN
        /\ (Len(currentData) = 2 /\ currentData[1].close # Num(0))
              => call.root.sqrtOf = Num(0)

\* closes [100, 110, 105]: returns 1/10 and -1/22, population variance
\* 16/3025, volatility sqrt(1612800/121), about 115.45
C16_Witness ==
    /\ call.op = "calculateVolatility"
    /\ Len(currentData) = 3
    /\ currentData[1].close = Num(100)
    /\ currentData[2].close = Num(110)
    /\ currentData[3].close = Num(105)
    /\ call.root.sqrtOf = <<1612800, 121>>

\* x <= y on finite numbers
Leq(x, y) == Sub(x, y)[1] <= 0

\* the absolute value of a finite number
AbsOf(x) == <<Abs(x[1]), x[2]>>

\* C17 as stated: on the static-rate path, for currencies A and B of the
\* current-rate mapping with positive rates, converting a series from A to B
\* and the result from B to A reproduces the original close of every point.
C17_RoundTripExact ==
    call.op = "roundTrip" =>
        /\ Len(call.out) = Len(currentData)
        /\ \A i \in 1..Len(currentData) : call.out[i].close = currentData[i].close

\* C17 amended: the round trip on the static-rate path reproduces every close
\* up to the rounding of its four floating-point operations: the difference
\* is at most 5 * 2^-Precision times the close, and 0 for equal currencies.
C17_RoundTripWithinRounding ==
    call.op = "roundTrip" =>
        /\ Len(call.out) = Len(currentData)
        /\ \A i \in 1..Len(currentData) :
              /\ call.out[i].date = currentData[i].date
              /\ Leq(Mul(AbsOf(Sub(call.out[i].close, currentData[i].close)),
                         Num(Pow2(Precision))),
                     Mul(Num(5), AbsOf(currentData[i].close)))
              /\ call.source = call.target =>
                    call.out[i].close = currentData[i].close

\* a round trip between USD and NOK that moves a close, by less than the
\* rounding allows, next to a close it gives back
C17_Witness ==
    /\ call.op = "roundTrip"
    /\ call.source = "USD" /\ call.target = "NOK"
    /\ Len(historicalRates) = 0
    /\ Len(currentData) >= 2
    /\ \E i \in 1..Len(currentData) :
          /\ call.out[i].close # currentData[i].close
          /\ currentData[i].close # Num(0)
    /\ \E i \in 1..Len(currentData) :
          /\ call.out[i].close = currentData[i].close
          /\ currentData[i].close # Num(0)

\* the analytics functions that only read their input and the shared state
PureFunctions ==
    {"convertDataToCurrency", "calculateCurrencyImpactOverTime",
     "calculateIndexWithoutCurrencyChanges", "calculateCurrencyImpact",
     "calculateVolatility"}

\* C18: a call of convertDataToCurrency, calculateCurrencyImpactOverTime,
\* calculateIndexWithoutCurrencyChanges, calculateCurrencyImpact or
\* calculateVolatility leaves its input series, every field of every point,
\* and currentData, historicalRates and currencyRates as they were.
C18_Pure ==
    [][call'.op \in PureFunctions =>
          /\ currentData' = currentData
          /\ historicalRates' = historicalRates
          /\ currencyRates' = currencyRates]_vars

\* a conversion whose result differs from its input in every point
C18_Witness ==
    /\ call.op = "convertDataToCurrency"
    /\ call.target = "NOK" /\ call.source = "USD"
    /\ Len(currentData) = MaxPoints
    /\ RateOf("NOK") = Num(10) /\ RateOf("USD") = Num(1)
    /\ \A i \in 1..Len(currentData) :
          /\ call.out[i].open # currentData[i].open
          /\ call.out[i].close # currentData[i].close

\* the calls that read currentData together with historicalRates
Readers == {"renderChart", "exportData"}

\* table is what loadHistoricalExchangeRates returns for the date range of
\* the price series data
TableIsFor(table, data) ==
    \E o \in TableOutcomes(data[1].date, data[Len(data)].date) : o.table = table

\* C19: under any interleaving of the invocations of loadFinancialData and of
\* the readers, the historicalRates a reader reads is the table that was
\* loaded for the date range of the currentData it reads
C19_ConsistentSnapshot ==
    (call.op \in Readers /\ Len(currentData) > 0 /\ Len(historicalRates) > 0)
        => TableIsFor(historicalRates, currentData)

\* the rates a feed of loadCurrencyRates can leave in currencyRates
RealRates == { o.rates : o \in { x \in RateOutcomes : x.kind = "real" } }

\* the tables a feed of loadHistoricalExchangeRates can return for the range
\* of an invocation
RealTables ==
    { RealTable(PriceFeed(tf)[1].date, PriceFeed(tf)[tf + 1].date) : tf \in Timeframes }

C21_LastWriteWins ==
    (call.op = "findClosestRate" /\ Cardinality(SameDay(call.date)) >= 2)
        => LET last == CHOOSE i \in SameDay(call.date) :
                           \A j \in SameDay(call.date) : j <= i
           IN  call.rate = historicalRates[last].rate

\* the step starts a fetch: one more invocation of loadFinancialData awaits
\* the price feed, the rates or the table, or loadCurrencyRates starts its
\* fetches
RequestIssued ==
    \/ \E r \in BagToSet(loads') :
          /\ r.pc \in {"fetch", "rates", "hist"}
          /\ CopiesIn(r, loads') > CopiesIn(r, loads)
    \/ refresh = "idle" /\ refresh' = "fetch"

\* checkRateLimit has granted a request in the step
Granted == checkRateLimit.ok /\ rateLimiter' = checkRateLimit.limiter

\* C22: every outbound request is granted by checkRateLimit, which grants
\* only while rateLimiter.requests < maxRequests, so that no more than
\* maxRequests requests are issued between two resets of the counter
C22_EveryRequestGranted ==
    [][RequestIssued => Granted]_vars

\* the step is a call of loadCurrencyRates, by the preload or the refresh
\* timer or by loadFinancialData after its price fetch, that finds no valid
\* cached rates and the rate limit reached
LimitedLoadCurrencyRates ==
    /\ loadCurrencyRatesBegin.kind = "limited"
    /\ \/ StartLoadCurrencyRates
       \/ /\ DOMAIN currencyRates = {}
          /\ \E r \in BagToSet(loads) :
                /\ FetchSettles(r)
                /\ loads' # Replace(r, [NoLoad EXCEPT !.pc = "retry"])

\* C23: when the rate limit is reached and no valid cached rates exist,
\* loadCurrencyRates leaves currencyRates with a USD and a NOK rate, so that
\* loadFinancialData finds currencyRates populated
C23_FallbackOnRateLimit ==
    [][LimitedLoadCurrencyRates => {"USD", "NOK"} \subseteq DOMAIN currencyRates']_vars

\* the age of the cache entry of the currency rates
CacheAge == now - cache.timestamp

\* C24: once loadCurrencyRates has stored rates in the cache, a call of
\* loadCurrencyRates made while the entry is younger than its duration sets
\* currencyRates to the cached rates, starts no fetch and leaves
\* rateLimiter as it is; getCachedData returns null once the age of the entry
\* reaches its duration; setCachedData keeps the duration of the entry
C24_CacheHit ==
    /\ (cache.data # Null /\ CacheAge < CacheDuration)
          => loadCurrencyRatesBegin =
                [kind |-> "cached", rates |-> cache.data, limiter |-> rateLimiter]
    /\ CacheAge >= CacheDuration => getCachedData = Null
    /\ cache.duration = CacheDuration

\* rates have been stored after the clock has moved and are still valid,
\* with the rate limit reached: the next call is served from the cache
C24_Witness ==
    /\ cache.data # Null
    /\ cache.timestamp > 0
    /\ CacheAge < CacheDuration
    /\ rateLimiter.requests = MaxRequests
    /\ ~checkRateLimit.ok
    /\ currencyRates = cache.data
    /\ loadCurrencyRatesBegin.kind = "cached"
    /\ refresh = "idle"

\* C26: every series processFinancialData produces has closes that are
\* neither null nor NaN, each the adjusted close of its bar when the feed
\* supplies one and the raw close otherwise, is in ascending date order, and
\* has no two points of the same date
C26_SeriesInvariant ==
    call.op = "processFinancialData"
        => LET out == call.out
           IN  /\ \A i \in 1..Len(out) :
                     /\ out[i].close # Null /\ out[i].close # NaN
                     /\ \E j \in 1..Len(call.result) :
                           /\ out[i].date = call.result[j].timestamp * 1000
                           /\ out[i].adjClose = call.result[j].adjclose
                           /\ out[i].close =
                                 IF call.result[j].adjclose # Null
                                 THEN call.result[j].adjclose
                                 ELSE call.result[j].close
               /\ \A i, j \in 1..Len(out) : i < j => out[i].date <= out[j].date
               /\ \A i, j \in 1..Len(out) : i # j => out[i].date # out[j].date

InFlight == { r \in BagToSet(loads) : r.pc # "retry" }

\* C28: under any interleaving of the invocations of loadFinancialData the
\* loading indicator is shown whenever at least one of them is in flight
C28_LoadingWhileInFlight ==
    InFlight # {} => loading

\* the invocations of loadFinancialData that wait for the timer of their
\* retry
Retries == CopiesIn([NoLoad EXCEPT !.pc = "retry"], loads)

\* the invocations of loadFinancialData that have not ended
Running == BagCardinality(loads) - Retries

Intervals(callback) == { t \in timers : t.callback = callback }

\* the intervals of a callback are the one of its handle, if any
OneInterval(handle, callback) ==
    /\ Cardinality(Intervals(callback)) <= 1
    /\ Intervals(callback) =
          IF handle = 0 THEN {} ELSE {[id |-> handle, callback |-> callback]}

\* C30: whatever calls of loadMarketOverview and startLiveUpdates there have
\* been, at most one market-overview interval and at most one live-update
\* interval is running
C30_OneInterval ==
    /\ OneInterval(marketOverviewInterval, "marketOverview")
    /\ OneInterval(liveUpdateInterval, "liveUpdate")

\* startMarketOverviewUpdates has run twice and startLiveUpdates once
C30_Witness ==
    /\ nextTimer > MaxTimers
    /\ Cardinality(Intervals("marketOverview")) = 1
    /\ Cardinality(Intervals("liveUpdate")) = 1

====
